---- MODULE Spec2Model ----
(***************************************************************************)
(* Model of scripts/precision_recall.py: calculate_classification_metrics  *)
(* applied to a confusion matrix (rows = actual class, columns = predicted *)
(* class).                                                                 *)
(*                                                                         *)
(* Number representation.                                                  *)
(*  - matrix entries and the counts derived from them by + and - are       *)
(*    numpy int64 values; the model keeps them below 2^31, where int64     *)
(*    addition is exact, and holds them as integers;                       *)
(*  - the int64 products of the MCC formula are computed modulo 2^64 on    *)
(*    little-endian sequences of 8 base-256 limbs (two's complement);      *)
(*  - the float64 result of an integer division is held as the exact       *)
(*    rational [num, den] in lowest terms, den = 0 standing for NaN (the   *)
(*    value numpy gives 0/0); rounding of float64 is not modelled;         *)
(*  - an MCC value is held as [num, den2]: NaN when den2 is negative as a  *)
(*    signed 64-bit value (np.sqrt of a negative number), 0 when den2 = 0  *)
(*    (the guard of line 105), otherwise num / sqrt(den2).                 *)
(***************************************************************************)
EXTENDS Integers, Sequences, FiniteSets, TLC

\* Largest number of rows and of columns of an input matrix.
MaxN == 3
\* Largest number of batches of samples the caller records in a matrix.
MaxSamples == 4
\* The caller records samples one at a time or BigBatch at a time; a matrix
\* of BigBatch-sized entries has MCC products beyond 2^63.
BigBatch == 60000

Batches == {1, BigBatch}

VARIABLES
    cm,             \* the confusion matrix, a sequence of rows
    shape,          \* <<rows, columns>> of cm (cm.shape)
    batch,          \* samples the caller adds per recorded batch
    pc,             \* position in calculate_classification_metrics
    class_idx,      \* loop variable of line 72 (0-based)
    total_samples,  \* line 50
    class_samples,  \* line 51
    per_class,      \* metrics['per_class']
    overall,        \* metrics['overall']
    error           \* the exception that ended the call, or "none"

vars == <<cm, shape, batch, pc, class_idx, total_samples, class_samples,
          per_class, overall, error>>

-----------------------------------------------------------------------------
(* float64 results of integer arithmetic, as exact rationals *)

RECURSIVE Gcd(_, _)
Gcd(a, b) == IF b = 0 THEN a ELSE Gcd(b, a % b)

Abs(x) == IF x < 0 THEN -x ELSE x

NaN == [num |-> 0, den |-> 0]
IsNaN(x) == x.den = 0

\* n / d in lowest terms with a positive denominator (d # 0)
Norm(n, d) ==
    LET g == Gcd(Abs(n), Abs(d))
        s == IF d < 0 THEN -1 ELSE 1
    IN  [num |-> s * (n \div g), den |-> s * (d \div g)]

FromInt(n) == [num |-> n, den |-> 1]

\* numpy true division of two int64 scalars: 0/0 is NaN (a RuntimeWarning,
\* not an exception); the model never divides a nonzero count by zero.
IntDiv(n, d) == IF d = 0 THEN NaN ELSE Norm(n, d)

FAdd(x, y) ==
    IF IsNaN(x) \/ IsNaN(y) THEN NaN
    ELSE LET g == Gcd(x.den, y.den)
         IN  Norm(x.num * (y.den \div g) + y.num * (x.den \div g),
                  (x.den \div g) * y.den)

FMul(x, y) ==
    IF IsNaN(x) \/ IsNaN(y) THEN NaN
    ELSE LET a == Norm(x.num, y.den)
             b == Norm(y.num, x.den)
         IN  [num |-> a.num * b.num, den |-> a.den * b.den]

\* x / y for y # 0
FDiv(x, y) ==
    IF IsNaN(x) \/ IsNaN(y) THEN NaN
    ELSE FMul(x, Norm(y.den, y.num))

FPos(x) == ~IsNaN(x) /\ x.num > 0
FEq(x, y) == ~IsNaN(x) /\ ~IsNaN(y) /\ x.num * y.den = y.num * x.den

-----------------------------------------------------------------------------
(* int64 arithmetic modulo 2^64 on 8 limbs; exact arithmetic on 16 limbs *)

Limbs(n, nl) ==
    [i \in 1..nl |-> IF i <= 4 THEN (n \div (256 ^ (i - 1))) % 256 ELSE 0]

Pad(a, nl) == [i \in 1..nl |-> IF i <= Len(a) THEN a[i] ELSE 0]

RECURSIVE ColSum(_, _, _, _)
ColSum(a, b, k, i) ==
    IF i > k THEN 0 ELSE a[i] * b[k + 1 - i] + ColSum(a, b, k, i + 1)

RECURSIVE MulFrom(_, _, _, _)
MulFrom(a, b, k, carry) ==
    IF k > Len(a) THEN << >>
    ELSE LET s == ColSum(a, b, k, 1) + carry
         IN  <<s % 256>> \o MulFrom(a, b, k + 1, s \div 256)

\* a * b modulo 256^Len(a)
LMul(a, b) == MulFrom(a, b, 1, 0)

RECURSIVE SubFrom(_, _, _, _)
SubFrom(a, b, k, borrow) ==
    IF k > Len(a) THEN << >>
    ELSE LET d == a[k] - b[k] - borrow
         IN  <<d % 256>> \o SubFrom(a, b, k + 1, IF d < 0 THEN 1 ELSE 0)

\* a - b modulo 256^Len(a)
LSub(a, b) == SubFrom(a, b, 1, 0)

LZero(nl) == [i \in 1..nl |-> 0]
LIsZero(a) == \A i \in 1..Len(a) : a[i] = 0

\* sign bit of a two's complement value
LNeg(a) == a[Len(a)] >= 128

\* magnitude of a two's complement value
LAbs(a) == IF LNeg(a) THEN LSub(LZero(Len(a)), a) ELSE a

RECURSIVE LeFrom(_, _, _)
LeFrom(a, b, k) ==
    IF k = 0 THEN TRUE
    ELSE IF a[k] # b[k] THEN a[k] < b[k]
    ELSE LeFrom(a, b, k - 1)

\* a <= b, both unsigned and of the same length
LLe(a, b) == LeFrom(a, b, Len(a))

-----------------------------------------------------------------------------
(* numpy reductions over the matrix *)

RECURSIVE SumSeq(_, _)
SumSeq(s, k) == IF k = 0 THEN 0 ELSE s[k] + SumSeq(s, k - 1)

\* np.sum(cm[r, :]) for the 1-based row r
RowSum(m, r) == SumSeq(m[r], Len(m[r]))

\* np.sum(cm[:, c]) for the 1-based column c
ColumnSum(m, c) == SumSeq([r \in 1..Len(m) |-> m[r][c]], Len(m))

\* cm.shape[0]
NumClasses(sh) == sh[1]

\* np.sum(cm)
TotalSamples(m) == SumSeq([r \in 1..Len(m) |-> RowSum(m, r)], Len(m))

\* np.sum(cm, axis=0) in place of axis=1: the counts of predictions (of a
\* square matrix; the row sums are kept where the shapes would not match)
ClassSamplesByColumn(m) ==
    [r \in 1..Len(m) |-> IF Len(m[r]) = Len(m) THEN ColumnSum(m, r) ELSE RowSum(m, r)]

\* np.sum(cm, axis=1)
ClassSamples(m) == [r \in 1..Len(m) |-> RowSum(m, r)]

Min(a, b) == IF a < b THEN a ELSE b

\* a trace that stops one short of the last diagonal entry
TraceSkipLast(m, sh) ==
    SumSeq([i \in 1..Min(sh[1], sh[2]) |-> m[i][i]], Min(sh[1], sh[2]) - 1)

\* np.trace(cm): the main diagonal of a matrix of any shape
Trace(m, sh) == SumSeq([i \in 1..Min(sh[1], sh[2]) |-> m[i][i]], Min(sh[1], sh[2]))

\* correct_predictions / total_samples
Accuracy(m, sh) == IntDiv(Trace(m, sh), TotalSamples(m))

-----------------------------------------------------------------------------
(* per-class counts and metrics; c is the 0-based class_idx *)

TP(m, c) == m[c + 1][c + 1]
FP(m, c) == ColumnSum(m, c + 1) - TP(m, c)
FN(m, c) == RowSum(m, c + 1) - TP(m, c)
TN(m, c, total) == total - (TP(m, c) + FP(m, c) + FN(m, c))

\* the guard of line 86 written >= 0: 0/0 is evaluated
PrecisionUnguarded(tp, fp) ==
    IF (tp + fp) >= 0 THEN IntDiv(tp, tp + fp) ELSE FromInt(0)

Precision(tp, fp) == IF (tp + fp) > 0 THEN IntDiv(tp, tp + fp) ELSE FromInt(0)

\* fn in place of tp in the numerator: the miss rate
RecallOfMisses(tp, fn) ==
    IF (tp + fn) > 0 THEN IntDiv(fn, tp + fn) ELSE FromInt(0)

Recall(tp, fn) == IF (tp + fn) > 0 THEN IntDiv(tp, tp + fn) ELSE FromInt(0)

\* the harmonic mean without its factor 2
F1Halved(precision, recall) ==
    IF FPos(FAdd(precision, recall))
    THEN FDiv(FMul(precision, recall), FAdd(precision, recall))
    ELSE FromInt(0)

F1(precision, recall) ==
    IF FPos(FAdd(precision, recall))
    THEN FDiv(FMul(FromInt(2), FMul(precision, recall)), FAdd(precision, recall))
    ELSE FromInt(0)

Sensitivity(tp, fn) == IF (tp + fn) > 0 THEN IntDiv(tp, tp + fn) ELSE FromInt(0)

Specificity(tn, fp) == IF (tn + fp) > 0 THEN IntDiv(tn, tn + fp) ELSE FromInt(0)

BalancedAccuracy(sensitivity, specificity) ==
    FMul(FAdd(sensitivity, specificity), IntDiv(1, 2))

WeightedAccuracy(tp, tn, fp, fn) == IntDiv(tp + tn, tp + tn + fp + fn)

L64(n) == Limbs(n, 8)

\* (tp+fp)*(tp+fn)*(tn+fp)*(tn+fn) as numpy computes it on int64 scalars
MccRadicand(tp, tn, fp, fn) ==
    LMul(LMul(LMul(L64(tp + fp), L64(tp + fn)), L64(tn + fp)), L64(tn + fn))

\* the two products of the numerator exchanged
MccNumeratorSwapped(tp, tn, fp, fn) ==
    LSub(LMul(L64(fp), L64(fn)), LMul(L64(tp), L64(tn)))

\* (tp * tn) - (fp * fn) on int64 scalars
MccNumerator(tp, tn, fp, fn) ==
    LSub(LMul(L64(tp), L64(tn)), LMul(L64(fp), L64(fn)))

\* np.sqrt of a negative radicand is NaN, and NaN != 0, so the quotient of
\* line 105 is taken and is NaN; the numerator is evaluated only when the
\* denominator is not zero.
Mcc(tp, tn, fp, fn) ==
    LET den2 == MccRadicand(tp, tn, fp, fn)
    IN  IF ~LIsZero(den2)
        THEN [num |-> MccNumerator(tp, tn, fp, fn), den2 |-> den2]
        ELSE [num |-> LZero(8), den2 |-> den2]

-----------------------------------------------------------------------------
(* aggregation *)

RECURSIVE FSum(_, _)
FSum(s, k) == IF k = 0 THEN FromInt(0) ELSE FAdd(FSum(s, k - 1), s[k])

\* np.mean(a): NaN on an empty array
Mean(a) ==
    IF Len(a) = 0 THEN NaN ELSE FDiv(FSum(a, Len(a)), FromInt(Len(a)))

\* np.mean(mccs), kept as the terms of the sum and their count
MeanMcc(a) == [terms |-> a, n |-> Len(a)]

\* np.average(a, weights=w) once the weights are known not to sum to zero
Average(a, w) ==
    FDiv(FSum([i \in 1..Len(a) |-> FMul(a[i], FromInt(w[i]))], Len(a)),
         FromInt(SumSeq(w, Len(w))))

\* np.average(mccs, weights=w), kept as the weighted terms and the scale
AverageMcc(a, w) ==
    [terms |-> [i \in 1..Len(a) |-> [x |-> a[i], w |-> w[i]]],
     scl |-> SumSeq(w, Len(w))]

-----------------------------------------------------------------------------
(* the program *)

ZeroMatrix(sh) == [r \in 1..sh[1] |-> [c \in 1..sh[2] |-> 0]]

EmptyPerClass ==
    [precision |-> << >>, recall |-> << >>, f1_score |-> << >>,
     balanced_accuracy |-> << >>, weighted_accuracy |-> << >>, mcc |-> << >>]

InitOverall ==
    [accuracy |-> FromInt(0),
     macro_precision |-> FromInt(0), macro_recall |-> FromInt(0),
     macro_f1_score |-> FromInt(0), macro_balanced_accuracy |-> FromInt(0),
     macro_weighted_accuracy |-> FromInt(0), macro_mcc |-> MeanMcc(<< >>),
     weighted_precision |-> FromInt(0), weighted_recall |-> FromInt(0),
     weighted_f1_score |-> FromInt(0), weighted_balanced_accuracy |-> FromInt(0),
     weighted_weighted_accuracy |-> FromInt(0),
     weighted_mcc |-> AverageMcc(<< >>, << >>)]

Init ==
    /\ shape \in (0..MaxN) \X (0..MaxN)
    /\ batch \in Batches
    /\ cm = ZeroMatrix(shape)
    /\ pc = "input"
    /\ class_idx = 0
    /\ total_samples = 0
    /\ class_samples = << >>
    /\ per_class = EmptyPerClass
    /\ overall = InitOverall
    /\ error = "none"

\* The caller records one more batch of samples of actual class i predicted
\* as class j.
AddSample(i, j) ==
    /\ pc = "input"
    /\ TotalSamples(cm) < MaxSamples * batch
    /\ cm' = [cm EXCEPT ![i][j] = @ + batch]
    /\ UNCHANGED <<shape, batch, pc, class_idx, total_samples, class_samples,
                   per_class, overall, error>>

\* Lines 17-47: the call starts with a fresh metrics dictionary.
Call ==
    /\ pc = "input"
    /\ pc' = "totals"
    /\ per_class' = EmptyPerClass
    /\ overall' = InitOverall
    /\ UNCHANGED <<cm, shape, batch, class_idx, total_samples, class_samples, error>>

\* Lines 49-55.
Totals ==
    /\ pc = "totals"
    /\ total_samples' = TotalSamples(cm)
    /\ class_samples' = ClassSamples(cm)
    /\ overall' = [overall EXCEPT !.accuracy = Accuracy(cm, shape)]
    /\ class_idx' = 0
    /\ pc' = "loop"
    /\ UNCHANGED <<cm, shape, batch, per_class, error>>

\* Lines 72-113: one iteration of the loop over the classes. cm[c, c] with c
\* beyond the last column raises IndexError.
ClassStep ==
    /\ pc = "loop"
    /\ class_idx < NumClasses(shape)
    /\ IF class_idx >= shape[2]
       THEN /\ error' = "IndexError"
            /\ pc' = "raised"
            /\ UNCHANGED <<class_idx, per_class>>
       ELSE LET tp == TP(cm, class_idx)
                fp == FP(cm, class_idx)
                fn == FN(cm, class_idx)
                tn == TN(cm, class_idx, total_samples)
                precision == Precision(tp, fp)
                recall == Recall(tp, fn)
            IN  /\ per_class' =
                     [precision |-> Append(per_class.precision, precision),
                      recall |-> Append(per_class.recall, recall),
                      f1_score |-> Append(per_class.f1_score, F1(precision, recall)),
                      balanced_accuracy |->
                          Append(per_class.balanced_accuracy,
                                 BalancedAccuracy(Sensitivity(tp, fn),
                                                  Specificity(tn, fp))),
                      weighted_accuracy |->
                          Append(per_class.weighted_accuracy,
                                 WeightedAccuracy(tp, tn, fp, fn)),
                      mcc |-> Append(per_class.mcc, Mcc(tp, tn, fp, fn))]
                /\ class_idx' = class_idx + 1
                /\ UNCHANGED <<pc, error>>
    /\ UNCHANGED <<cm, shape, batch, total_samples, class_samples, overall>>

\* Lines 115-129, after the last iteration.
MacroAverage ==
    /\ pc = "loop"
    /\ class_idx = NumClasses(shape)
    /\ overall' =
         [overall EXCEPT
            !.macro_precision = Mean(per_class.precision),
            !.macro_recall = Mean(per_class.recall),
            !.macro_f1_score = Mean(per_class.f1_score),
            !.macro_balanced_accuracy = Mean(per_class.balanced_accuracy),
            !.macro_weighted_accuracy = Mean(per_class.weighted_accuracy),
            !.macro_mcc = MeanMcc(per_class.mcc)]
    /\ pc' = "weighted"
    /\ UNCHANGED <<cm, shape, batch, class_idx, total_samples, class_samples,
                   per_class, error>>

\* Lines 131-139: np.average raises ZeroDivisionError when the weights sum
\* to zero; otherwise the metrics are returned.
WeightedAverage ==
    /\ pc = "weighted"
    /\ IF SumSeq(class_samples, Len(class_samples)) = 0
       THEN /\ error' = "ZeroDivisionError"
            /\ pc' = "raised"
            /\ UNCHANGED overall
       ELSE /\ overall' =
                 [overall EXCEPT
                    !.weighted_precision = Average(per_class.precision, class_samples),
                    !.weighted_recall = Average(per_class.recall, class_samples),
                    !.weighted_f1_score = Average(per_class.f1_score, class_samples),
                    !.weighted_balanced_accuracy =
                        Average(per_class.balanced_accuracy, class_samples),
                    !.weighted_weighted_accuracy =
                        Average(per_class.weighted_accuracy, class_samples),
                    !.weighted_mcc = AverageMcc(per_class.mcc, class_samples)]
            /\ pc' = "done"
            /\ UNCHANGED error
    /\ UNCHANGED <<cm, shape, batch, class_idx, total_samples, class_samples, per_class>>

Next ==
    \/ \E i \in 1..shape[1], j \in 1..shape[2] : AddSample(i, j)
    \/ Call
    \/ Totals
    \/ ClassStep
    \/ MacroAverage
    \/ WeightedAverage

Spec == Init /\ [][Next]_vars

-----------------------------------------------------------------------------
(* vocabulary of the properties *)

Square == shape[1] = shape[2]
Returned == pc = "done"

\* 1-based positions of the classes the loop has finished
Processed == 1..Len(per_class.precision)

\* sum of every entry, and of the diagonal, of the input matrix
EntrySum == SumSeq([r \in 1..shape[1] |-> SumSeq(cm[r], shape[2])], shape[1])
DiagSum == SumSeq([i \in 1..shape[1] |-> cm[i][i]], shape[1])

\* count of actual instances of the class at position k
ActualCount(k) == SumSeq(cm[k], shape[2])
PredictedCount(k) == SumSeq([r \in 1..shape[1] |-> cm[r][k]], shape[1])

Diagonal == \A i \in 1..shape[1], j \in 1..shape[2] : i # j => cm[i][j] = 0

InUnit(x) == ~IsNaN(x) /\ 0 <= x.num /\ x.num <= x.den
FIs(x, n) == ~IsNaN(x) /\ x.num = n * x.den

X128(n) == Limbs(n, 16)
Sq128(a) == LET m == Pad(LAbs(a), 16) IN LMul(m, m)

\* the radicand of the MCC of the class at position k, without wraparound
ExactRadicand(k) ==
    LET tp == cm[k][k]
        fp == PredictedCount(k) - tp
        fn == ActualCount(k) - tp
        tn == EntrySum - tp - fp - fn
    IN  LMul(LMul(LMul(X128(tp + fp), X128(tp + fn)), X128(tn + fp)), X128(tn + fn))

MccIsNaN(x) == LNeg(x.den2)
\* the signed 64-bit radicand stored for the class at position k is the
\* exact product
RadicandExact(x, k) == ~LNeg(x.den2) /\ Pad(x.den2, 16) = ExactRadicand(k)
MccIsZero(x) == ~MccIsNaN(x) /\ (LIsZero(x.den2) \/ LIsZero(x.num))
\* -1 <= x <= 1: num^2 <= den2
MccInRange(x) ==
    ~MccIsNaN(x) /\ (LIsZero(x.den2) \/ LLe(Sq128(x.num), Pad(x.den2, 16)))
\* x = sign * p / q for positive p and q: q^2 * num^2 = p^2 * den2
MccIs(x, sign, p, q) ==
    /\ ~MccIsNaN(x)
    /\ ~LIsZero(x.den2)
    /\ ~LIsZero(x.num)
    /\ LNeg(x.num) <=> (sign < 0)
    /\ LMul(X128(q * q), Sq128(x.num)) = LMul(X128(p * p), Pad(x.den2, 16))

-----------------------------------------------------------------------------
\* C1: a call on a matrix that is not square, or that has zero classes, never
\* returns a result (it fails instead).
C1_NonSquareNeverReturns ==
    (~Square \/ shape[1] = 0) => ~Returned

\* C2: a call on a square matrix with at least one class does not end in a
\* division-by-zero fault, whatever its total or its row sums.
C2_NoDivisionFault ==
    (Square /\ shape[1] >= 1) => error # "ZeroDivisionError"

\* C3: for a square matrix with a nonzero entry, every per-class value is a
\* finite number, in [0, 1] for precision, recall, f1, balanced accuracy and
\* weighted accuracy and in [-1, 1] for mcc.
C3_PerClassInRange ==
    (Square /\ EntrySum > 0) =>
        \A k \in Processed :
            /\ InUnit(per_class.precision[k])
            /\ InUnit(per_class.recall[k])
            /\ InUnit(per_class.f1_score[k])
            /\ InUnit(per_class.balanced_accuracy[k])
            /\ InUnit(per_class.weighted_accuracy[k])
            /\ MccInRange(per_class.mcc[k])

-----------------------------------------------------------------------------
\* the counts of the class at position k, taken from the input matrix
TPk(k) == cm[k][k]
TNk(k) == EntrySum - PredictedCount(k) - ActualCount(k) + cm[k][k]

DiagonalInput == Square /\ Diagonal /\ EntrySum > 0

TotalConfusion == <<<<0, 1>>, <<1, 0>>>>

\* C6 as stated: for [[0,1],[1,0]] the accuracy is 0 and each class has
\* tp = 0, precision = recall = f1 = 0, an MCC radicand of 4 and mcc = -1/2.
C6_TotalConfusionHalf ==
    (Returned /\ cm = TotalConfusion) =>
        /\ FIs(overall.accuracy, 0)
        /\ \A k \in 1..2 :
              /\ TPk(k) = 0
              /\ FIs(per_class.precision[k], 0)
              /\ FIs(per_class.recall[k], 0)
              /\ FIs(per_class.f1_score[k], 0)
              /\ per_class.mcc[k].den2 = L64(4)
              /\ MccIs(per_class.mcc[k], -1, 1, 2)

\* C6 as amended: for [[0,1],[1,0]] the accuracy is 0 and each class has
\* tp = 0 and tn = 0, precision = recall = f1 = 0, an MCC radicand of
\* (0+1)*(0+1)*(0+1)*(0+1) = 1 and mcc = (0*0 - 1*1)/1 = -1.
C6_TotalConfusionMinusOne ==
    (Returned /\ cm = TotalConfusion) =>
        /\ FIs(overall.accuracy, 0)
        /\ \A k \in 1..2 :
              /\ TPk(k) = 0
              /\ FIs(per_class.precision[k], 0)
              /\ FIs(per_class.recall[k], 0)
              /\ FIs(per_class.f1_score[k], 0)
              /\ per_class.mcc[k].den2 = L64(1)
              /\ MccIs(per_class.mcc[k], -1, 1, 1)

C6_Witness ==
    /\ Returned /\ cm = TotalConfusion
    /\ Len(per_class.mcc) = 2
    /\ LNeg(per_class.mcc[1].num)

\* the row and the column of the class at position k hold only zeros
EmptyClass(k) == ActualCount(k) = 0 /\ PredictedCount(k) = 0

\* C7: in a square matrix with a nonzero total, a class whose row and column
\* are entirely zero gets precision = recall = f1 = 0 and mcc = 0, none of
\* them NaN, and the call does not fail.
C7_EmptyClassIsZero ==
    (Square /\ EntrySum > 0) =>
        /\ error = "none"
        /\ \A k \in Processed :
              EmptyClass(k) =>
                  /\ FIs(per_class.precision[k], 0)
                  /\ FIs(per_class.recall[k], 0)
                  /\ FIs(per_class.f1_score[k], 0)
                  /\ MccIsZero(per_class.mcc[k])
                  /\ LIsZero(per_class.mcc[k].den2)

C7_Witness ==
    /\ Returned /\ shape = <<3, 3>> /\ EntrySum > 0
    /\ EmptyClass(2) /\ cm[1][3] > 0 /\ cm[3][3] > 0
    /\ FIs(per_class.precision[2], 0)

\* sum over the classes of X_c * row_sum_c, and the sum of the row sums
RECURSIVE RowWeightedSum(_, _)
RowWeightedSum(xs, k) ==
    IF k = 0 THEN FromInt(0)
    ELSE FAdd(RowWeightedSum(xs, k - 1), FMul(xs[k], FromInt(ActualCount(k))))

RowWeightedAverage(xs) == FDiv(RowWeightedSum(xs, Len(xs)), FromInt(EntrySum))

\* C8: for a square matrix with a nonzero total each returned weighted_X is
\* sum(X_c * row_sum_c) / sum(row_sum_c), the weights being the row sums of
\* the input matrix.
C8_WeightedByRowSums ==
    (Returned /\ Square /\ EntrySum > 0) =>
        /\ FEq(overall.weighted_precision, RowWeightedAverage(per_class.precision))
        /\ FEq(overall.weighted_recall, RowWeightedAverage(per_class.recall))
        /\ FEq(overall.weighted_f1_score, RowWeightedAverage(per_class.f1_score))
        /\ FEq(overall.weighted_balanced_accuracy,
               RowWeightedAverage(per_class.balanced_accuracy))
        /\ FEq(overall.weighted_weighted_accuracy,
               RowWeightedAverage(per_class.weighted_accuracy))
        /\ overall.weighted_mcc.scl = EntrySum
        /\ Len(overall.weighted_mcc.terms) = shape[1]
        /\ \A k \in 1..shape[1] :
              /\ overall.weighted_mcc.terms[k].x = per_class.mcc[k]
              /\ overall.weighted_mcc.terms[k].w = ActualCount(k)

C8_Witness ==
    /\ Returned /\ shape = <<3, 3>>
    /\ ActualCount(1) = 3 * batch /\ PredictedCount(1) = batch
    /\ cm[1][1] = batch /\ cm[1][2] = batch /\ cm[1][3] = batch
    /\ cm[2][2] = batch
    /\ overall.weighted_precision = [num |-> 7, den |-> 8]

C10_RadicandExact ==
    Square =>
        \A k \in Processed :
            /\ RadicandExact(per_class.mcc[k], k)
            /\ MccInRange(per_class.mcc[k])

====
